---- MODULE Spec2Model ----
(***************************************************************************)
(* The history store of luminatext (services/historyService): a list of    *)
(* transcription records kept as one JSON document under one localStorage  *)
(* key, with save / list / delete / clear operations.                      *)
(*                                                                         *)
(* JavaScript strings that the code inspects (text, preview, fileName)     *)
(* are sequences of one-character strings; the other fields are opaque.    *)
(***************************************************************************)
EXTENDS Integers, Sequences, FiniteSets, TLC

\* ---------------------------------------------------------------- bounds
MaxSaves == 3
MaxLongSaves == 2
MaxFill == 102
MaxTabSaves == 2
MaxDownloadSaves == 2
MaxDrops == 3

\* ------------------------------------------------------ program constants
PreviewLen == 150
HistoryLimit == 100

Min(a, b) == IF a < b THEN a ELSE b

\* ------------------------------------------------ transcription results
Alphabet == <<"a", "b", "c", "d", "e", "f", "g">>

TextOfLen(n) == [i \in 1..n |-> Alphabet[((i - 1) % 7) + 1]]

FileNameA == <<"a", ".", "m", "p", "3">>
FileNameB == <<"b", ".", "v", "2", ".", "w", "a", "v">>

\* TranscriptionResult: { fileName, date, duration, fileSize, text }
\* (date is opaque to the store: a day ordinal stands for the date string)
Result(f, d, n) ==
  [fileName |-> f, date |-> d, duration |-> "1:30",
   fileSize |-> "2.4 MB", text |-> TextOfLen(n)]

\* results with short transcripts
Results == {Result(FileNameA, 1, 0), Result(FileNameB, 2, 3)}

\* results whose transcripts are around and beyond the preview length
LongResults ==
  {Result(FileNameA, 1, n) : n \in {1, PreviewLen - 1, PreviewLen, PreviewLen + 1, 200}}

\* the n-th of a run of pairwise distinct results
DistinctResult(n) == Result(IF n % 2 = 0 THEN FileNameA ELSE FileNameB, n, n % 3)

NoResult == Result(<<>>, 0, 0)

\* String.prototype.substring(a, b) for 0 <= a <= b
substring(s, a, b) == SubSeq(s, a + 1, Min(b, Len(s)))

\* Array.prototype.slice(a, b) for 0 <= a <= b
slice(s, a, b) == SubSeq(s, a + 1, Min(b, Len(s)))

\* ------------------------------------------------------------------ ids
\* `${Date.now()}-${Math.random().toString(36).substring(2, 9)}`: two ids
\* are equal exactly when the millisecond and the random suffix are equal.
\* Date.now() may return the same millisecond twice, so with one suffix both
\* outcomes occur: an id equal to an earlier one, and a new id.
Suffixes == {"k3x9q"}

MakeId(ms, sfx) == [ms |-> ms, suffix |-> sfx]

NoId == MakeId(0 - 1, "")

Ids == {MakeId(ms, sfx) : ms \in 0..MaxSaves, sfx \in Suffixes}

\* ------------------------------------------------------------ the record
\* HistoryItem.  savedSeq is a history field: the ordinal of the save that
\* built the item.  No operation reads it.
\* variant: the marker also on a text of exactly PreviewLen characters
previewMarkerAtLimit(text) ==
  substring(text, 0, PreviewLen) \o (IF Len(text) >= PreviewLen THEN <<".", ".", ".">> ELSE <<>>)

preview(text) ==
  substring(text, 0, PreviewLen) \o (IF Len(text) > PreviewLen THEN <<".", ".", ".">> ELSE <<>>)

HistoryItem(result, id, n) ==
  [id |-> id,
   fileName |-> result.fileName,
   date |-> result.date,
   duration |-> result.duration,
   fileSize |-> result.fileSize,
   text |-> result.text,
   preview |-> preview(result.text),
   savedSeq |-> n]

\* ------------------------------------------------------ JavaScript values
\* A value the store handles: an array (elems), or a non-array JSON value.
JSArray(s) == [type |-> "array", elems |-> s]
JSObject == [type |-> "object", elems |-> <<>>]
JSNull == [type |-> "null", elems |-> <<>>]
JSUndefined == [type |-> "undefined", elems |-> <<>>]

\* What localStorage.getItem(STORAGE_KEY) yields: null when the key is
\* absent, else a string: the empty string, text that is not JSON, or the
\* JSON text of an object, of null, or of an array (items).
Absent == [kind |-> "absent", items |-> <<>>]
EmptyString == [kind |-> "empty", items |-> <<>>]
InvalidJSON == [kind |-> "invalid", items |-> <<>>]
ObjectJSON == [kind |-> "object", items |-> <<>>]
NullJSON == [kind |-> "jsonnull", items |-> <<>>]
ArrayJSON(s) == [kind |-> "array", items |-> s]

Malformed == {EmptyString, InvalidJSON, ObjectJSON, NullJSON}

\* JSON.stringify of a value
JSONstringify(v) ==
  CASE v.type = "array" -> ArrayJSON(v.elems)
    [] v.type = "object" -> ObjectJSON
    [] OTHER -> NullJSON

\* JSON.parse of a string: throws SyntaxError on text that is not JSON
JSONparse(s) ==
  CASE s.kind = "array" -> [threw |-> FALSE, val |-> JSArray(s.items)]
    [] s.kind = "object" -> [threw |-> FALSE, val |-> JSObject]
    [] s.kind = "jsonnull" -> [threw |-> FALSE, val |-> JSNull]
    [] OTHER -> [threw |-> TRUE, val |-> JSUndefined]

\* a string is falsy exactly when it is empty; null is falsy
Truthy(stored) == stored.kind \notin {"absent", "empty"}

\* ------------------------------------------------------- the environment
\* "ok": storage works.  "denied": every localStorage access throws
\* (SecurityError).  "quota": setItem throws (QuotaExceededError).
Envs == {"ok", "denied", "quota"}

\* localStorage.getItem / setItem / removeItem on STORAGE_KEY
getItem(store, env) == [threw |-> env = "denied", val |-> store]

setItem(store, env, s) ==
  IF env = "ok" THEN [threw |-> FALSE, store |-> s] ELSE [threw |-> TRUE, store |-> store]

\* variant: the key is emptied, not removed
removeItemEmpties(store, env) ==
  IF env = "denied" THEN [threw |-> TRUE, store |-> store]
  ELSE [threw |-> FALSE, store |-> ArrayJSON(<<>>)]

removeItem(store, env) ==
  IF env = "denied" THEN [threw |-> TRUE, store |-> store]
  ELSE [threw |-> FALSE, store |-> Absent]

\* --------------------------------------------------------- the functions
\* Each function is an outcome: what it returns or leaves in storage, and
\* whether an exception leaves it (threw).

\* the try block of getTranscriptionHistory
getTranscriptionHistoryTry(store, env) ==
  LET stored == getItem(store, env)
  IN  IF stored.threw THEN [threw |-> TRUE, val |-> JSUndefined]
      ELSE IF Truthy(stored.val) THEN JSONparse(stored.val)
      ELSE [threw |-> FALSE, val |-> JSArray(<<>>)]

getTranscriptionHistory(store, env) ==
  LET try == getTranscriptionHistoryTry(store, env)
  IN  IF try.threw THEN [threw |-> FALSE, val |-> JSArray(<<>>)] ELSE try

\* variant: the list is never cut
limitedHistoryUncut(existing, item) ==
  IF existing.type # "array" THEN [threw |-> TRUE, val |-> JSUndefined]
  ELSE [threw |-> FALSE, val |-> JSArray(<<item>> \o existing.elems)]

\* variant: slice(-100), which keeps the last 100 and so drops the new item
limitedHistoryKeepLast(existing, item) ==
  IF existing.type # "array" THEN [threw |-> TRUE, val |-> JSUndefined]
  ELSE LET updated == <<item>> \o existing.elems
       IN  [threw |-> FALSE,
            val |-> JSArray(SubSeq(updated, Len(updated) - Min(Len(updated), HistoryLimit) + 1,
                                   Len(updated)))]

\* variant: the new item is put at the end
limitedHistoryAppend(existing, item) ==
  IF existing.type # "array" THEN [threw |-> TRUE, val |-> JSUndefined]
  ELSE [threw |-> FALSE,
        val |-> JSArray(slice(existing.elems \o <<item>>, 0, HistoryLimit))]

\* [historyItem, ...existingHistory].slice(0, 100); the spread throws a
\* TypeError when existingHistory is not iterable
limitedHistory(existing, item) ==
  IF existing.type # "array" THEN [threw |-> TRUE, val |-> JSUndefined]
  ELSE [threw |-> FALSE,
        val |-> JSArray(slice(<<item>> \o existing.elems, 0, HistoryLimit))]

\* variant: the filter keeps the items with the id
filterHistoryInverted(history, id) ==
  IF history.type # "array" THEN [threw |-> TRUE, val |-> JSUndefined]
  ELSE [threw |-> FALSE,
        val |-> JSArray(SelectSeq(history.elems, LAMBDA item : item.id = id))]

\* variant: history.splice(history.findIndex(item => item.id === id), 1),
\* which removes the last item when findIndex returns -1
filterHistorySplice(history, id) ==
  IF history.type # "array" THEN [threw |-> TRUE, val |-> JSUndefined]
  ELSE LET e == history.elems
           hits == {i \in 1..Len(e) : e[i].id = id}
           k == IF hits = {} THEN Len(e) ELSE CHOOSE i \in hits : \A j \in hits : i <= j
       IN  [threw |-> FALSE, val |-> JSArray(SubSeq(e, 1, k - 1) \o SubSeq(e, k + 1, Len(e)))]

\* history.filter(item => item.id !== id); a TypeError when history has no
\* filter method
filterHistory(history, id) ==
  IF history.type # "array" THEN [threw |-> TRUE, val |-> JSUndefined]
  ELSE [threw |-> FALSE,
        val |-> JSArray(SelectSeq(history.elems, LAMBDA item : item.id # id))]

\* localStorage.setItem(STORAGE_KEY, JSON.stringify(list)) after the list
\* was computed (or the computation threw)
writeBack(store, env, computed) ==
  IF computed.threw THEN [threw |-> TRUE, store |-> store]
  ELSE setItem(store, env, JSONstringify(computed.val))

\* variant: the exception is thrown again
catchRethrow(try) == try

\* try { ... } catch (error) { console.error(...) }
catch(try) == [threw |-> FALSE, store |-> try.store]

saveTranscriptionTry(store, env, result, id, n) ==
  LET existingHistory == getTranscriptionHistory(store, env)
  IN  IF existingHistory.threw THEN [threw |-> TRUE, store |-> store]
      ELSE writeBack(store, env,
                     limitedHistory(existingHistory.val, HistoryItem(result, id, n)))

saveTranscription(store, env, result, id, n) ==
  catch(saveTranscriptionTry(store, env, result, id, n))

deleteTranscriptionTry(store, env, id) ==
  LET history == getTranscriptionHistory(store, env)
  IN  IF history.threw THEN [threw |-> TRUE, store |-> store]
      ELSE writeBack(store, env, filterHistory(history.val, id))

deleteTranscription(store, env, id) == catch(deleteTranscriptionTry(store, env, id))

clearAllHistory(store, env) == catch(removeItem(store, env))

\* ---------------------------------------------------------------- state
Tabs == {1, 2}

VARIABLES
  storage,   \* what localStorage holds under STORAGE_KEY
  now,       \* the last value Date.now() returned
  nSaved,    \* saveTranscription calls so far
  removed,   \* whether deleteTranscription or clearAllHistory was ever called
  call,      \* the last completed call: its arguments and outcome, the
             \* storage it read and the storage it found when it wrote
  pc,        \* per tab: "idle", or "read" between a call's getItem and setItem
  local,     \* per tab: the call in progress and the list it computed
  download,  \* the file the last downloadTranscription call offered
  view,      \* the Transcribe component's state: isUploading,
             \* transcriptionResult, error
  drops      \* the onDrop calls so far, in order: where each one is, how
             \* its transcribeFile call ended, and what it saved

vars == <<storage, now, nSaved, removed, call, pc, local, download, view, drops>>

Call(op, result, id, env, raised, ret, read, before) ==
  [op |-> op, result |-> result, id |-> id, env |-> env, raised |-> raised,
   ret |-> ret, read |-> read, before |-> before]

NoCall == Call("none", NoResult, NoId, "ok", FALSE, JSUndefined, Absent, Absent)

Local(op, result, id, read, computed) ==
  [op |-> op, result |-> result, id |-> id, read |-> read, computed |-> computed]

NoLocal == Local("none", NoResult, NoId, Absent, [threw |-> FALSE, val |-> JSUndefined])

\* the browser download: <a download=name href=blob(content)>.click()
File(name, content) == [offered |-> TRUE, name |-> name, content |-> content]

NoFile == [offered |-> FALSE, name |-> <<>>, content |-> <<>>]

\* useState(null): a value that is null or set
Null == [set |-> FALSE, result |-> NoResult, message |-> ""]
SetResult(result) == [set |-> TRUE, result |-> result, message |-> ""]
SetMessage(message) == [set |-> TRUE, result |-> NoResult, message |-> message]

InitRest ==
  /\ download = NoFile
  /\ view = [isUploading |-> FALSE, transcriptionResult |-> Null, error |-> Null]
  /\ drops = <<>>
  /\ now = 0
  /\ nSaved = 0
  /\ removed = FALSE
  /\ call = NoCall
  /\ pc = [t \in Tabs |-> "idle"]
  /\ local = [t \in Tabs |-> NoLocal]

Init == storage = Absent /\ InitRest

\* a store whose key some other writer left in any shape
InitCorrupt == storage \in {Absent} \cup Malformed /\ InitRest

\* -------------------------------------------- one writer: calls are atomic
\* saveTranscription(result), Date.now() returning t and Math.random() sfx
SaveCall(result, t, sfx, env) ==
  LET out == saveTranscription(storage, env, result, MakeId(t, sfx), nSaved + 1)
  IN  /\ t >= now
      /\ storage' = out.store
      /\ now' = t
      /\ nSaved' = nSaved + 1
      /\ call' = Call("save", result, MakeId(t, sfx), env, out.threw, JSUndefined,
                      storage, storage)

Save(result, t, sfx, env) ==
  /\ SaveCall(result, t, sfx, env)
  /\ UNCHANGED <<removed, pc, local, download, view, drops>>

\* getTranscriptionHistory()
List(env) ==
  LET out == getTranscriptionHistory(storage, env)
  IN  /\ call' = Call("list", NoResult, NoId, env, out.threw, out.val, storage, storage)
      /\ UNCHANGED <<storage, now, nSaved, removed, pc, local, download, view, drops>>

\* deleteTranscription(id)
Delete(id, env) ==
  LET out == deleteTranscription(storage, env, id)
  IN  /\ storage' = out.store
      /\ removed' = TRUE
      /\ call' = Call("delete", NoResult, id, env, out.threw, JSUndefined, storage, storage)
      /\ UNCHANGED <<now, nSaved, pc, local, download, view, drops>>

\* clearAllHistory()
Clear(env) ==
  LET out == clearAllHistory(storage, env)
  IN  /\ storage' = out.store
      /\ removed' = TRUE
      /\ call' = Call("clear", NoResult, NoId, env, out.threw, JSUndefined, storage, storage)
      /\ UNCHANGED <<now, nSaved, pc, local, download, view, drops>>

Next ==
  \/ \E result \in Results, t \in {now, now + 1}, sfx \in Suffixes, env \in Envs :
        nSaved < MaxSaves /\ Save(result, t, sfx, env)
  \/ \E env \in {"ok", "denied"} : List(env)
  \/ \E id \in Ids, env \in Envs : Delete(id, env)
  \/ \E env \in {"ok", "denied"} : Clear(env)

Spec == Init /\ [][Next]_vars

SpecCorrupt == InitCorrupt /\ [][Next]_vars

\* saves of long transcripts, ids that do not collide
NextLong ==
  \/ \E result \in LongResults, sfx \in Suffixes, env \in {"ok", "quota"} :
        nSaved < MaxLongSaves /\ Save(result, now + 1, sfx, env)
  \/ List("ok")
  \/ Clear("ok")

SpecLong == Init /\ [][NextLong]_vars

\* a long run of saves of distinct results; the only record deleted is the
\* oldest one
OldestId == IF storage.items = <<>> THEN NoId ELSE storage.items[Len(storage.items)].id

NextFill ==
  \/ nSaved < MaxFill /\ (\E sfx \in Suffixes : Save(DistinctResult(nSaved + 1), now + 1, sfx, "ok"))
  \/ \E id \in {OldestId, NoId} : Delete(id, "ok")
  \/ Clear("ok")

SpecFill == Init /\ [][NextFill]_vars

\* ------------------------------ two tabs on one storage: read, then write
\* variant: the list is computed again from the storage found at the write
tabWriteFresh(store, loc) ==
  LET current == getTranscriptionHistory(store, "ok").val
  IN  IF loc.computed.threw THEN [threw |-> TRUE, store |-> store]
      ELSE IF loc.op = "save"
      THEN writeBack(store, "ok", limitedHistory(current, loc.computed.val.elems[1]))
      ELSE writeBack(store, "ok", filterHistory(current, loc.id))

\* localStorage.setItem(STORAGE_KEY, JSON.stringify(...)) of the list the
\* call computed from what it had read
tabWrite(store, loc) == writeBack(store, "ok", loc.computed)

\* a tab's saveTranscription up to, not including, its setItem
TabSaveRead(tab, result, t, sfx) ==
  LET existingHistory == getTranscriptionHistory(storage, "ok")
      computed == limitedHistory(existingHistory.val,
                                 HistoryItem(result, MakeId(t, sfx), nSaved + 1))
  IN  /\ pc[tab] = "idle"
      /\ t >= now
      /\ local' = [local EXCEPT ![tab] = Local("save", result, MakeId(t, sfx), storage, computed)]
      /\ pc' = [pc EXCEPT ![tab] = "read"]
      /\ now' = t
      /\ nSaved' = nSaved + 1
      /\ UNCHANGED <<storage, removed, call, download, view, drops>>

\* a tab's deleteTranscription up to, not including, its setItem
TabDeleteRead(tab, id) ==
  LET history == getTranscriptionHistory(storage, "ok")
  IN  /\ pc[tab] = "idle"
      /\ local' = [local EXCEPT ![tab] =
                     Local("delete", NoResult, id, storage, filterHistory(history.val, id))]
      /\ pc' = [pc EXCEPT ![tab] = "read"]
      /\ removed' = TRUE
      /\ UNCHANGED <<storage, now, nSaved, call, download, view, drops>>

\* the setItem of the call a tab has in progress, and its return
TabWrite(tab) ==
  LET loc == local[tab]
      out == catch(tabWrite(storage, loc))
  IN  /\ pc[tab] = "read"
      /\ storage' = out.store
      /\ call' = Call(loc.op, loc.result, loc.id, "ok", out.threw, JSUndefined,
                      loc.read, storage)
      /\ pc' = [pc EXCEPT ![tab] = "idle"]
      /\ local' = [local EXCEPT ![tab] = NoLocal]
      /\ UNCHANGED <<now, nSaved, removed, download, view, drops>>

\* a tab's clearAllHistory: one storage access
TabClear(tab) == pc[tab] = "idle" /\ Clear("ok")

NextTabs ==
  \/ \E tab \in Tabs, result \in Results, sfx \in Suffixes :
        nSaved < MaxTabSaves /\ TabSaveRead(tab, result, now + 1, sfx)
  \/ \E tab \in Tabs, id \in Ids : TabDeleteRead(tab, id)
  \/ \E tab \in Tabs : TabWrite(tab)
  \/ \E tab \in Tabs : TabClear(tab)

SpecTabs == Init /\ [][NextTabs]_vars

\* what getTranscriptionHistory() returns from a store, storage working
HistoryOf(store) == getTranscriptionHistory(store, "ok").val

Range(seq) == {seq[i] : i \in 1..Len(seq)}

\* ------------------------------------------------ downloadTranscription
FileNameNoExt == <<"n", "o", "t", "e", "s">>
FileNameDotEnd == <<"x", ".">>
FileNameDotStart == <<".", "m", "4", "a">>
FileNameSlash == <<"v", ".", "1", "/", "f">>

DownloadNames ==
  {FileNameA, FileNameB, FileNameNoExt, FileNameDotEnd, FileNameDotStart, FileNameSlash}

TranscriptSuffix ==
  <<"_", "t", "r", "a", "n", "s", "c", "r", "i", "p", "t", ".", "t", "x", "t">>

\* where /\.[^/.]+$/ matches in name: a "." followed, up to the end, by one
\* or more characters that are neither "/" nor "."
ExtensionMatches(name) ==
  {p \in 1..Len(name) :
     /\ name[p] = "."
     /\ p < Len(name)
     /\ \A q \in (p + 1)..Len(name) : name[q] \notin {"/", "."}}

\* variant: /\..+$/, which matches from the first "."
stripExtensionFromFirstDot(name) ==
  LET dots == {p \in 1..Len(name) : name[p] = "." /\ p < Len(name)}
  IN  IF dots = {} THEN name
      ELSE SubSeq(name, 1, (CHOOSE p \in dots : \A q \in dots : p <= q) - 1)

\* item.fileName.replace(/\.[^/.]+$/, ''): the leftmost match is removed
stripExtension(name) ==
  LET m == ExtensionMatches(name)
  IN  IF m = {} THEN name
      ELSE SubSeq(name, 1, (CHOOSE p \in m : \A q \in m : p <= q) - 1)

\* the try block of downloadTranscription; dom = "fail" when a DOM or Blob
\* call throws before the click
downloadTranscriptionTry(item, dom) ==
  IF dom = "ok"
  THEN [threw |-> FALSE,
        file |-> File(stripExtension(item.fileName) \o TranscriptSuffix, item.text)]
  ELSE [threw |-> TRUE, file |-> NoFile]

downloadTranscription(item, dom) ==
  LET try == downloadTranscriptionTry(item, dom)
  IN  [threw |-> FALSE, file |-> try.file]

\* the TranscriptionResult fields of an item
ItemFields(item) ==
  [fileName |-> item.fileName, date |-> item.date, duration |-> item.duration,
   fileSize |-> item.fileSize, text |-> item.text]

\* downloadTranscription(item)
Download(item, dom) ==
  LET out == downloadTranscription(item, dom)
  IN  /\ download' = out.file
      /\ call' = Call("download", ItemFields(item), item.id, "ok", out.threw, JSUndefined,
                      storage, storage)
      /\ UNCHANGED <<storage, now, nSaved, removed, pc, local, view, drops>>

\* the History page: items are saved, listed, and downloaded from the list
NextDownload ==
  \/ \E f \in DownloadNames, n \in {0, 3}, sfx \in Suffixes :
        nSaved < MaxDownloadSaves /\ Save(Result(f, 1, n), now + 1, sfx, "ok")
  \/ \E item \in Range(HistoryOf(storage).elems), dom \in {"ok", "fail"} : Download(item, dom)
  \/ \E id \in Ids : Delete(id, "ok")

SpecDownload == Init /\ [][NextDownload]_vars

\* ------------------------------------------------- the Transcribe view
\* how a transcribeFile(file) promise ends: resolved with a result, or
\* rejected with an Error or with some other value
Resolved(result) == [ok |-> TRUE, result |-> result, isError |-> FALSE, message |-> ""]
RejectedError == [ok |-> FALSE, result |-> NoResult, isError |-> TRUE, message |-> "Network Error"]
RejectedOther == [ok |-> FALSE, result |-> NoResult, isError |-> FALSE, message |-> ""]

Settlements == {Resolved(result) : result \in Results} \cup {RejectedError, RejectedOther}

\* err instanceof Error ? err.message : '...'
errorMessage(err) ==
  IF err.isError THEN err.message ELSE "An error occurred during transcription"

Drop(state, outcome, result, saves, savedWith) ==
  [state |-> state, outcome |-> outcome, result |-> result, saves |-> saves,
   savedWith |-> savedWith]

\* variant: saveTranscription moved into the finally block
onDropSettledSavesInFinally(settled) ==
  [setResult |-> settled.ok, save |-> TRUE, saveArg |-> settled.result]

\* onDrop after the await: which of the try block's two statements run
onDropSettled(settled) ==
  [setResult |-> settled.ok, save |-> settled.ok, saveArg |-> settled.result]

\* onDrop([]): returns at once
DropNothing ==
  /\ drops' = Append(drops, Drop("done", "empty", NoResult, 0, NoResult))
  /\ UNCHANGED <<storage, now, nSaved, removed, call, pc, local, download, view>>

\* onDrop([file]) up to its await: the three setters, then transcribeFile
DropFile ==
  /\ view' = [isUploading |-> TRUE, transcriptionResult |-> Null, error |-> Null]
  /\ drops' = Append(drops, Drop("awaiting", "pending", NoResult, 0, NoResult))
  /\ UNCHANGED <<storage, now, nSaved, removed, call, pc, local, download>>

\* onDrop from its await on, the promise of drop d settling
DropSettle(d, settled, t, sfx, env) ==
  LET does == onDropSettled(settled)
      saveThrew ==
        does.save /\ saveTranscription(storage, env, does.saveArg, MakeId(t, sfx), nSaved + 1).threw
      caught == ~settled.ok \/ saveThrew
  IN  /\ drops[d].state = "awaiting"
      /\ IF does.save THEN SaveCall(does.saveArg, t, sfx, env)
         ELSE UNCHANGED <<storage, now, nSaved, call>>
      /\ view' =
           [isUploading |-> FALSE,
            transcriptionResult |->
              IF does.setResult THEN SetResult(settled.result) ELSE view.transcriptionResult,
            error |-> IF caught THEN SetMessage(errorMessage(settled)) ELSE view.error]
      /\ drops' = [drops EXCEPT ![d] =
                     Drop("done", IF settled.ok THEN "resolved" ELSE "rejected", settled.result,
                          IF does.save THEN 1 ELSE 0,
                          IF does.save THEN does.saveArg ELSE NoResult)]
      /\ UNCHANGED <<removed, pc, local, download>>

NextView ==
  \/ Len(drops) < MaxDrops /\ DropNothing
  \/ Len(drops) < MaxDrops /\ DropFile
  \/ \E d \in 1..Len(drops), settled \in Settlements, sfx \in Suffixes, env \in {"ok", "quota"} :
        DropSettle(d, settled, now + 1, sfx, env)

SpecView == Init /\ [][NextView]_vars

\* ------------------------------------------------------------ properties
\* the save of the last call reached its setItem and setItem succeeded
SaveWrote == call.op = "save" /\ call.env = "ok" /\ HistoryOf(call.read).type = "array"

\* likewise for the delete of the last call
DeleteWrote == call.op = "delete" /\ call.env = "ok" /\ HistoryOf(call.read).type = "array"

\* C1: after saveTranscription(r), getTranscriptionHistory() returns a list
\* with a record whose text, fileName, duration, fileSize and date are those
\* of r and whose preview is r.text when r.text has at most 150 characters,
\* and the first 150 characters of r.text followed by "..." when it is
\* longer (153 characters for a text of 200).
C1_SaveThenList ==
  SaveWrote =>
    LET r == call.result
        h == HistoryOf(storage)
    IN  /\ h.type = "array"
        /\ \E i \in 1..Len(h.elems) :
             LET rec == h.elems[i]
             IN  /\ rec.text = r.text
                 /\ rec.fileName = r.fileName
                 /\ rec.duration = r.duration
                 /\ rec.fileSize = r.fileSize
                 /\ rec.date = r.date
                 /\ Len(r.text) <= 150 => rec.preview = r.text
                 /\ Len(r.text) > 150 =>
                      /\ Len(rec.preview) = 153
                      /\ \A k \in 1..150 : rec.preview[k] = r.text[k]
                      /\ \A k \in 151..153 : rec.preview[k] = "."
                 /\ Len(r.text) = 200 => Len(rec.preview) = 153

C1_Witness ==
  /\ SaveWrote
  /\ Len(call.result.text) = 200
  /\ Len(storage.items) = 2
  /\ Len(storage.items[1].preview) = 153
  /\ Len(storage.items[2].text) = 150
  /\ storage.items[2].preview = storage.items[2].text

\* C2: the stored list never has more than 100 records, and a save on a list
\* of 100 records leaves the new record followed by the 99 most recent of
\* them: the oldest one is dropped.
C2_AtMostLimit ==
  /\ storage.kind = "array" => Len(storage.items) <= 100
  /\ Len(HistoryOf(storage).elems) <= 100
  /\ (SaveWrote /\ Len(call.before.items) = 100) =>
       /\ Len(storage.items) = 100
       /\ \A i \in 1..99 : storage.items[i + 1] = call.before.items[i]
       /\ call.before.items[100] \notin Range(storage.items)

C2_Witness ==
  /\ SaveWrote
  /\ Len(call.before.items) = 100
  /\ Len(storage.items) = 100
  /\ removed

\* C3: from an empty store, after 101 saves of distinct results and nothing
\* else, the list has exactly 100 records, the 101st saved first and each
\* record saved just before the one ahead of it, and the first saved record
\* is not in it.
C3_Save101 ==
  (nSaved = 101 /\ ~removed) =>
    LET h == HistoryOf(storage).elems
    IN  /\ Len(h) = 100
        /\ \A i \in 1..100 :
             /\ h[i].savedSeq = 102 - i
             /\ h[i].date = DistinctResult(102 - i).date
             /\ h[i].fileName = DistinctResult(102 - i).fileName
             /\ h[i].text = DistinctResult(102 - i).text
        /\ \A i \in 1..100 : h[i].savedSeq # 1 /\ h[i].date # DistinctResult(1).date

C3_Witness ==
  /\ nSaved = 101
  /\ ~removed
  /\ call.op = "save"
  /\ Len(storage.items) = 100
  /\ Len(call.before.items) = 100

\* C4: with one writer, the stored records are ordered most recently saved
\* first: of two records, the one saved later is at the smaller index.
C4_RecentFirst ==
  LET h == HistoryOf(storage).elems
  IN  \A i, j \in 1..Len(h) : i < j => h[i].savedSeq > h[j].savedSeq

C4_Witness ==
  /\ call.op = "save"
  /\ removed
  /\ Len(storage.items) = 2
  /\ Len(call.before.items) = 1
  /\ storage.items[1].savedSeq = 3
  /\ storage.items[2].savedSeq = 1

\* the records of seq that a delete of id keeps, and how many of them are
\* at or before position i
Kept(seq, id) == {i \in 1..Len(seq) : seq[i].id # id}

Rank(seq, id, i) == Cardinality({j \in Kept(seq, id) : j <= i})

\* C5 as stated: deleteTranscription(id) removes exactly the record with
\* that id: the list afterwards is the list before with that one record
\* removed.
C5_RemovesOneRecord ==
  (DeleteWrote /\ \E rec \in Range(call.before.items) : rec.id = call.id) =>
    \E k \in 1..Len(call.before.items) :
      /\ call.before.items[k].id = call.id
      /\ storage.items =
           SubSeq(call.before.items, 1, k - 1)
             \o SubSeq(call.before.items, k + 1, Len(call.before.items))

\* C5 as amended: deleteTranscription(id) removes every record with that id
\* (one record when no other record shares the id): every other record is
\* still there, unchanged, and the remaining records keep their order.
C5_RemovesAllWithId ==
  DeleteWrote =>
    LET b == call.before.items
        a == storage.items
    IN  /\ storage.kind = "array"
        /\ Len(a) = Cardinality(Kept(b, call.id))
        /\ \A i \in Kept(b, call.id) : a[Rank(b, call.id, i)] = b[i]
        /\ \A k \in 1..Len(a) : a[k].id # call.id
        /\ Cardinality({i \in 1..Len(b) : b[i].id = call.id}) = 1 => Len(a) = Len(b) - 1

C5_Witness ==
  /\ DeleteWrote
  /\ Len(call.before.items) = 3
  /\ call.before.items[1].id = call.id
  /\ call.before.items[2].id = call.id
  /\ storage.items = <<call.before.items[3]>>

\* C6: deleteTranscription(id) with an id no stored record has leaves what
\* getTranscriptionHistory() returns unchanged, and raises nothing.
C6_DeleteAbsentId ==
  (call.op = "delete" /\ \A rec \in Range(HistoryOf(call.before).elems) : rec.id # call.id) =>
    /\ HistoryOf(storage) = HistoryOf(call.before)
    /\ ~call.raised

C6_Witness ==
  /\ DeleteWrote
  /\ Len(call.before.items) = 3
  /\ \A rec \in Range(call.before.items) : rec.id # call.id
  /\ storage.items = call.before.items

\* C7: whatever the key held, after clearAllHistory() (storage accessible)
\* the key is absent, and a getTranscriptionHistory() that follows returns
\* an empty array.
C7_ClearThenList ==
  call.op = "clear" =>
    /\ call.env = "ok" => storage = Absent
    /\ getTranscriptionHistory(storage, call.env) = [threw |-> FALSE, val |-> JSArray(<<>>)]

C7_Witness ==
  /\ call.op = "clear"
  /\ call.env = "ok"
  /\ call.before.kind = "array"
  /\ Len(call.before.items) = 2
  /\ storage.kind = "absent"

\* C8 as stated: when the key holds no data or anything other than the JSON
\* text of an array, getTranscriptionHistory() returns an empty array and
\* raises nothing.
C8_MalformedReadsEmpty ==
  (call.op = "list" /\ call.before.kind # "array") =>
    /\ call.ret = JSArray(<<>>)
    /\ ~call.raised

\* C9: no call of save, list, delete or clear raises to its caller, whatever
\* the key holds and whether or not storage works; a save whose storage
\* access fails leaves the key exactly as it was.
C9_NothingPropagates ==
  /\ ~call.raised
  /\ (call.op = "save" /\ call.env # "ok") => storage = call.before

C9_Witness ==
  /\ call.op = "save"
  /\ call.env = "quota"
  /\ call.before.kind = "array"
  /\ Len(call.before.items) = 2
  /\ storage = call.before
  /\ ~call.raised

\* C10: a tab's write puts back the list it computed from what it had read:
\* every record another tab added between that read and this write is gone
\* after it, and every record another tab deleted in between is back.
C10_LaterWriteWins ==
  (call.op \in {"save", "delete"} /\ storage.kind = "array") =>
    LET readRecs == Range(call.read.items)
        foundRecs == Range(call.before.items)
        nowRecs == Range(storage.items)
    IN  /\ \A x \in foundRecs \ readRecs : x \notin nowRecs
        /\ \A x \in readRecs \ foundRecs :
             (call.op = "delete" => x.id # call.id) => x \in nowRecs

\* two saves have returned, nothing was deleted or cleared, and one of the
\* two records is missing
C10_Witness ==
  /\ ~removed
  /\ nSaved = 2
  /\ \A tab \in Tabs : pc[tab] = "idle"
  /\ call.op = "save"
  /\ Len(call.before.items) = 1
  /\ Len(storage.items) = 1
  /\ call.before.items[1] \notin Range(storage.items)

\* the part of name before its extension: the extension starts at the last
\* "." of name, when that is not the last character and no "/" follows it
LastDot(name) ==
  LET dots == {p \in 1..Len(name) : name[p] = "."}
  IN  IF dots = {} THEN 0 ELSE CHOOSE p \in dots : \A q \in dots : q <= p

Stem(name) ==
  LET d == LastDot(name)
  IN  IF d = 0 \/ d = Len(name) \/ (\E q \in (d + 1)..Len(name) : name[q] = "/")
      THEN name
      ELSE SubSeq(name, 1, d - 1)

\* C11: downloadTranscription(record) leaves the storage key as it was, and
\* the file it offers has the record's text as content and is named by the
\* record's fileName without its extension, followed by "_transcript.txt".
C11_DownloadNameAndFrame ==
  call.op = "download" =>
    /\ storage = call.before
    /\ ~call.raised
    /\ download.offered =>
         /\ download.content = call.result.text
         /\ download.name = Stem(call.result.fileName) \o TranscriptSuffix
         /\ Len(download.name) = Len(Stem(call.result.fileName)) + 15

C11_Witness ==
  /\ call.op = "download"
  /\ download.offered
  /\ call.result.fileName = FileNameB
  /\ download.name = <<"b", ".", "v", "2">> \o TranscriptSuffix
  /\ Len(storage.items) = 2
  /\ Len(download.content) = 3

InFlight == {d \in 1..Len(drops) : drops[d].state = "awaiting"}

ResolvedDrops == {d \in 1..Len(drops) : drops[d].outcome = "resolved"}

\* C12: every onDrop whose transcribeFile call resolved has called
\* saveTranscription once, with that result; an onDrop with no file, one
\* whose call was rejected and one still waiting have not called it; so the
\* number of saveTranscription calls is the number of resolved drops.
C12_OneSavePerTranscription ==
  /\ \A d \in 1..Len(drops) :
       IF drops[d].outcome = "resolved"
       THEN drops[d].saves = 1 /\ drops[d].savedWith = drops[d].result
       ELSE drops[d].saves = 0
  /\ nSaved = Cardinality(ResolvedDrops)

C12_Witness ==
  /\ Len(drops) = 3
  /\ drops[1].outcome = "rejected"
  /\ drops[2].outcome = "resolved"
  /\ drops[3].outcome = "resolved"
  /\ nSaved = 2
  /\ Len(storage.items) = 2
  /\ storage.items[1].savedSeq = 2
  /\ storage.items[1].text = drops[2].result.text
  /\ storage.items[2].text = drops[3].result.text
  /\ drops[2].result # drops[3].result

\* C13 as stated: the error and the transcription result are never both
\* set, and isUploading is true while a transcribeFile call is in flight.
C13_ViewConsistent ==
  /\ ~(view.error.set /\ view.transcriptionResult.set)
  /\ InFlight # {} => view.isUploading

\* C14 as stated: a save (storage working) on a key that does not hold a
\* record list leaves the key holding a list whose first element is the
\* record built from the saved result.
C14_SaveRecovers ==
  (call.op = "save" /\ call.env = "ok" /\ call.before \in Malformed) =>
    /\ storage.kind = "array"
    /\ Len(storage.items) >= 1
    /\ storage.items[1] = HistoryItem(call.result, call.id, nSaved)

====
